---- MODULE Spec2Model ----
(***************************************************************************)
(* The two Pinia stores of the web client: the chat store                  *)
(* (web/src/stores/chat.js) and the config store                           *)
(* (web/src/stores/config.js), with the HTTP backend as the environment.   *)
(*                                                                         *)
(* JavaScript runs each handler to completion between awaits, so a handler *)
(* is one action up to its await and one action from the resumption to its *)
(* end.  Timestamps (new Date()) are left out: no handler reads them.      *)
(***************************************************************************)
EXTENDS Integers, Sequences, FiniteSets, TLC

\* ------------------------------------------------------------------ bounds
\* Spaces put before, and after, the text passed to sendMessage.
MaxPad == 1
\* Calls that reach the backend in one run: accepted sendMessage calls plus
\* config-store operations.
MaxCalls == 2

\* ------------------------------------------------------------ JS values
\* A JavaScript value that is a string, null or undefined.  A string is a
\* sequence of characters (or of longer literal chunks).
Str(s) == [t |-> "string", v |-> s]
Null == [t |-> "null", v |-> <<>>]
Undefined == [t |-> "undefined", v |-> <<>>]
\* JavaScript truthiness of such a value: '' , null and undefined are falsy.
Truthy(x) == x.t = "string" /\ x.v # <<>>

WhiteSpace == {" ", "\t"}

RECURSIVE TrimStart(_)
TrimStart(s) ==
  IF s # <<>> /\ Head(s) \in WhiteSpace THEN TrimStart(Tail(s)) ELSE s

RECURSIVE TrimEnd(_)
TrimEnd(s) ==
  IF s # <<>> /\ s[Len(s)] \in WhiteSpace
    THEN TrimEnd(SubSeq(s, 1, Len(s) - 1))
    ELSE s

\* A plausible slip: only leading white space is removed.
TrimStartOnly(s) == TrimStart(s)

\* String.prototype.trim
Trim(s) == TrimEnd(TrimStart(s))

\* The texts a caller passes to sendMessage: nothing, white space only, a
\* text with white space inside, and a text with MaxPad spaces before it,
\* after it, or both.
Pad(n) == [i \in 1..n |-> " "]
Contents ==
  {<<>>, Pad(MaxPad), <<"\t">>, <<"h", " ", "h">>}
    \cup {Pad(i) \o <<"h">> \o Pad(j) : i \in {0, MaxPad}, j \in {0, MaxPad}}

\* ------------------------------------------------------------- config data
\* temperature is kept in tenths (0.7 is 7) so that it stays an integer.
DefaultConfig ==
  [api_url |-> "", api_key |-> "", model |-> "",
   temperature |-> 7, max_tokens |-> 1000]

\* The named model configurations the backend serves (GET /api/config,
\* POST /api/models/{name}).
ServerModels ==
  [deepseek |->
     [api_url |-> "https://apis.iflow.cn/v1/chat/completions",
      api_key |-> "sk-a", model |-> "deepseek-v3.1",
      temperature |-> 7, max_tokens |-> 1000],
   silicon |->
     [api_url |-> "https://api.siliconflow.cn/v1/chat/completions",
      api_key |-> "sk-b", model |-> "deepseek-ai/DeepSeek-R1",
      temperature |-> 7, max_tokens |-> 1000]]

ModelNames == {"deepseek", "silicon", "unknown"}

\* The objects passed to saveConfig: a whole form, and a partial override
\* whose temperature (3.0) is outside [0.0, 2.0].
SaveInputs ==
  {[api_url |-> "https://api.openai.com/v1/chat/completions",
    api_key |-> "sk-c", model |-> "gpt-3.5-turbo",
    temperature |-> 7, max_tokens |-> 1000],
   [temperature |-> 30]}

\* { ...a, ...b }
Merge(a, b) ==
  [k \in DOMAIN a \cup DOMAIN b |-> IF k \in DOMAIN b THEN b[k] ELSE a[k]]

\* What the backend holds at start: the active configuration and the named
\* ones it serves; and, to tell whether its last write was a successful
\* saveConfig, clean, with what that call had made of the store's config
\* (saved) and how many config-store calls had started by then (at).
InitialServer ==
  [config |-> ServerModels.deepseek, models |-> ServerModels,
   clean |-> FALSE, saved |-> ServerModels.deepseek, at |-> 0]

\* The refs of the two views at start: ChatView's inputMessage, ConfigView's
\* loading and error (<<>> is null); alert is the notice the last handler of
\* ConfigView raised with alert(), "none" when it raised none.
InitialView ==
  [inputMessage |-> <<>>, loading |-> FALSE, error |-> <<>>, alert |-> "none"]

VARIABLES
  chatHistory,     \* chat store: the messages, in order
  isLoading,       \* chat store: a send is in flight
  messageCounter,  \* chat store: next message number
  pending,         \* /api/chat requests awaiting their response: id -> body
  requestCounter,  \* /api/chat requests issued so far
  lastStep,        \* what the handler that ran last did
  config,          \* config store: active configuration
  models,          \* config store: named configurations
  loading,         \* config store: an operation is in flight
  error,           \* config store: last error text (<<>> is null)
  cfgPending,      \* config-store calls awaiting their response: id -> call
  cfgOpCounter,    \* config-store calls started so far
  server,          \* the backend's stored configuration
  view             \* ChatView and ConfigView: their own refs

chatVars == <<chatHistory, isLoading, messageCounter, pending, requestCounter>>
cfgVars == <<config, models, loading, error, cfgPending, cfgOpCounter>>
vars == <<chatVars, lastStep, cfgVars, server, view>>

Init ==
  /\ chatHistory = <<>>
  /\ isLoading = FALSE
  /\ messageCounter = 0
  /\ pending = <<>>
  /\ requestCounter = 0
  /\ lastStep = "init"
  /\ config = DefaultConfig
  /\ models = <<>>
  /\ loading = FALSE
  /\ error = <<>>
  /\ cfgPending = <<>>
  /\ cfgOpCounter = 0
  /\ server = InitialServer
  /\ view = InitialView

\* ------------------------------------------------------- /api/chat replies
\* What axios.post('/api/chat') can settle with.  A 2xx response resolves
\* with its parsed body; a timeout, a transport failure and a non-2xx status
\* reject with an Error whose message is given here.
TimeoutMessage == <<"timeout of 30000ms exceeded">>
NetworkMessage == <<"Network Error">>
StatusMessage(code) == <<"Request failed with status code ", code>>
\* The message of the TypeError thrown by reading a property of null or of
\* undefined.
TypeErrorMessage == <<"Cannot read properties of undefined">>

\* One element of a choices array: whether it has a message object, and that
\* message's content.
Choice(hasMessage, content) == [hasMessage |-> hasMessage, content |-> content]

\* A parsed 2xx body.  isNull: the body is null.  hasChoices/choices: the
\* choices array.  content: the top-level content field.  status, msg, body:
\* the fields of an iflow envelope (body holds the reply text).
Body(isNull, hasChoices, choices, content, status, msg, body) ==
  [isNull |-> isNull, hasChoices |-> hasChoices, choices |-> choices,
   content |-> content, status |-> status, msg |-> msg, body |-> body]

Hi == Str(<<"H", "i">>)
Yo == Str(<<"Y", "o">>)

OpenAIBody ==
  Body(FALSE, TRUE, <<Choice(TRUE, Hi)>>, Undefined, Undefined, Undefined, Undefined)
SimplifiedBody ==
  Body(FALSE, FALSE, <<>>, Yo, Undefined, Undefined, Undefined)
IflowBody ==
  Body(FALSE, FALSE, <<>>, Undefined, Str(<<"0">>), Str(<<"ok">>), Hi)
IflowExpiredBody ==
  Body(FALSE, FALSE, <<>>, Undefined, Str(<<"1">>),
       Str(<<"Your API Token has expired">>), Undefined)
FooBarBody ==
  Body(FALSE, FALSE, <<>>, Undefined, Undefined, Undefined, Undefined)
EmptyChoicesBody ==
  Body(FALSE, TRUE, <<>>, Undefined, Undefined, Undefined, Undefined)
EmptyChoicesContentBody ==
  Body(FALSE, TRUE, <<>>, Yo, Undefined, Undefined, Undefined)
NoMessageBody ==
  Body(FALSE, TRUE, <<Choice(FALSE, Undefined)>>, Undefined, Undefined, Undefined, Undefined)
NullContentBody ==
  Body(FALSE, TRUE, <<Choice(TRUE, Null)>>, Undefined, Undefined, Undefined, Undefined)
\* A body with both shapes: a choices array holding "Hey" and a top-level
\* content "Yo".
BothBody ==
  Body(FALSE, TRUE, <<Choice(TRUE, Str(<<"H", "e", "y">>))>>, Yo,
       Undefined, Undefined, Undefined)
NullBody ==
  Body(TRUE, FALSE, <<>>, Undefined, Undefined, Undefined, Undefined)

Bodies ==
  {OpenAIBody, SimplifiedBody, IflowBody, IflowExpiredBody, FooBarBody,
   EmptyChoicesBody, EmptyChoicesContentBody, NoMessageBody, NullContentBody,
   BothBody, NullBody}

Resolved(data) == [ok |-> TRUE, data |-> data, message |-> <<>>]
Rejected(message) == [ok |-> FALSE, data |-> NullBody, message |-> message]

ChatResponses ==
  {Resolved(b) : b \in Bodies}
    \cup {Rejected(m) : m \in {TimeoutMessage, NetworkMessage,
                               StatusMessage("401"), StatusMessage("500")}}

\* --------------------------------------------------------------- chat store
\* The shape detection of sendMessage: the value it leaves in aiContent, or
\* threw when reading the body raises a TypeError.
Thrown == [threw |-> TRUE, value |-> Undefined]
Extracted(value) == [threw |-> FALSE, value |-> value]

\* Shape detection that looks at the top-level content first.
ExtractContentFirst(aiResponse) ==
  IF aiResponse.isNull THEN Thrown
  ELSE IF Truthy(aiResponse.content) THEN Extracted(aiResponse.content)
  ELSE IF aiResponse.hasChoices /\ Len(aiResponse.choices) > 0
    THEN IF aiResponse.choices[1].hasMessage
           THEN Extracted(aiResponse.choices[1].content)
           ELSE Thrown
  ELSE Extracted(Str(<<>>))

ExtractContent(aiResponse) ==
  IF aiResponse.isNull THEN Thrown
  ELSE IF aiResponse.hasChoices /\ Len(aiResponse.choices) > 0
    THEN IF aiResponse.choices[1].hasMessage
           THEN Extracted(aiResponse.choices[1].content)
           ELSE Thrown
  ELSE IF Truthy(aiResponse.content) THEN Extracted(aiResponse.content)
  ELSE Extracted(Str(<<>>))

\* The prefix of the catch block's text (the source's is in Chinese: "API call
\* failed: ").
ErrorPrefix == "API call failed: "

\* The content of the message sendMessage appends when the call settles with
\* response: the extracted reply, or the text built in the catch block.
ReplyContent(response) ==
  IF response.ok /\ ~ExtractContent(response.data).threw
    THEN ExtractContent(response.data).value
    ELSE Str(<<ErrorPrefix>> \o
             (IF response.ok THEN TypeErrorMessage ELSE response.message))

\* Whether the call ran into the catch block.
Caught(response) == ~response.ok \/ ExtractContent(response.data).threw

\* A try block that ends right after the await: what reads the response is
\* outside it.
TryCoversAwaitOnly(stage) == stage = "await"

\* Whether the handler's try block encloses stage: the await ("await") and
\* the statements that read the response ("read").  Both do, in sendMessage
\* and in the three config-store operations.
TryCovers(stage) == TRUE

\* Where the handler raises, if it does: the await rejects, or reading the
\* body throws a TypeError.
ThrowStage(ok, readThrows) ==
  IF ~ok THEN "await" ELSE IF readThrows THEN "read" ELSE "none"

\* An exception raised at stage leaves the handler: its promise rejects.
Escapes(stage) == stage # "none" /\ ~TryCovers(stage)

Message(n, role, content) ==
  [id |-> <<"msg_", n>>, role |-> role, content |-> content]

\* The guard of sendMessage without the isLoading test.
SendRejectedEmptyOnly(content) == Trim(content) = <<>>

\* sendMessage returns at once: empty text, or a send in flight.
SendRejected(content) == Trim(content) = <<>> \/ isLoading

\* A request body built from the initial configuration, not the current one.
BuildRequestStale(cfg, history) ==
  [api_url |-> DefaultConfig.api_url, api_key |-> DefaultConfig.api_key,
   model |-> DefaultConfig.model,
   messages |-> [i \in 1..Len(history) |->
                   [role |-> history[i].role, content |-> history[i].content]],
   temperature |-> DefaultConfig.temperature,
   max_tokens |-> DefaultConfig.max_tokens]

\* A request body that carries the newest message only.
BuildRequestLastOnly(cfg, history) ==
  [api_url |-> cfg.api_url, api_key |-> cfg.api_key, model |-> cfg.model,
   messages |-> [i \in 1..1 |->
                   [role |-> history[Len(history)].role,
                    content |-> history[Len(history)].content]],
   temperature |-> cfg.temperature, max_tokens |-> cfg.max_tokens]

\* The body of the POST /api/chat request.
BuildRequest(cfg, history) ==
  [api_url |-> cfg.api_url, api_key |-> cfg.api_key, model |-> cfg.model,
   messages |-> [i \in 1..Len(history) |->
                   [role |-> history[i].role, content |-> history[i].content]],
   temperature |-> cfg.temperature, max_tokens |-> cfg.max_tokens]

\* A finally block that is skipped when the call failed.
LoadingAfterCallNoFinally(response) == Caught(response)

\* isLoading after the call settled: the finally block.
LoadingAfterCall(response) == FALSE

\* A call that stays in flight (is issued again) after a failure.
PendingAfterCallRetry(id, response) ==
  IF Caught(response) THEN pending
  ELSE [j \in DOMAIN pending \ {id} |-> pending[j]]

\* The requests in flight after call id settled.
PendingAfterCall(id, response) ==
  [j \in DOMAIN pending \ {id} |-> pending[j]]

\* sendMessage(content), up to its await.
SendMessage(content) ==
  /\ IF SendRejected(content)
       THEN /\ lastStep' = IF Trim(content) = <<>>
                             THEN "sendRejectedEmpty"
                             ELSE "sendRejectedBusy"
            /\ UNCHANGED chatVars
       ELSE LET userMessage == Message(messageCounter, "user", Str(Trim(content)))
                history == Append(chatHistory, userMessage)
            IN /\ requestCounter + cfgOpCounter < MaxCalls
               /\ messageCounter' = messageCounter + 1
               /\ chatHistory' = history
               /\ isLoading' = TRUE
               /\ requestCounter' = requestCounter + 1
               /\ pending' = pending @@
                    ((requestCounter + 1) :> BuildRequest(config, history))
               /\ lastStep' = "sendAccepted"
  /\ UNCHANGED <<cfgVars, server>>

\* What the promise of sendMessage resolves with: nothing, on every path
\* (the early return, the try, the catch).
SendResult(content) == Undefined

\* sendMessage from the resumption after its await to its end.
ChatReply(id, response) ==
  /\ id \in DOMAIN pending
  /\ IF Escapes(ThrowStage(response.ok, ExtractContent(response.data).threw))
       THEN /\ UNCHANGED <<messageCounter, chatHistory>>
            /\ lastStep' = "replyUncaught"
       ELSE /\ messageCounter' = messageCounter + 1
            /\ chatHistory' = Append(chatHistory,
                 Message(messageCounter, "assistant", ReplyContent(response)))
            /\ lastStep' = IF Caught(response) THEN "replyFailed" ELSE "replyOk"
  /\ isLoading' = LoadingAfterCall(response)
  /\ pending' = PendingAfterCall(id, response)
  /\ UNCHANGED <<requestCounter, cfgVars, server>>

\* A clear that also starts the conversation over: the counter restarts and
\* the store is idle again.
ClearHistoryReset ==
  /\ chatHistory' = <<>>
  /\ messageCounter' = 0
  /\ isLoading' = FALSE
  /\ lastStep' = "clear"
  /\ UNCHANGED <<pending, requestCounter, cfgVars, server, view>>

\* A clear that restarts the numbering of messages.
ClearHistoryRestartIds ==
  /\ chatHistory' = <<>>
  /\ messageCounter' = 0
  /\ lastStep' = "clear"
  /\ UNCHANGED <<isLoading, pending, requestCounter, cfgVars, server,
                 view>>

ClearHistory ==
  /\ chatHistory' = <<>>
  /\ lastStep' = "clear"
  /\ UNCHANGED <<isLoading, messageCounter, pending, requestCounter, cfgVars,
                 server, view>>

NewConversation ==
  /\ ClearHistory

\* ------------------------------------------------------------- config store
\* What the backend answers to GET /api/config: a body with or without
\* config and model_configs, a null body, or a failure.
ConfigData(hasConfig, cfg, hasModels, modelConfigs) ==
  [isNull |-> FALSE, hasConfig |-> hasConfig, config |-> cfg,
   hasModels |-> hasModels, model_configs |-> modelConfigs]

NoConfigData == ConfigData(FALSE, DefaultConfig, FALSE, <<>>)
NullData == [NoConfigData EXCEPT !.isNull = TRUE]

CfgResolved(data) == [ok |-> TRUE, data |-> data, message |-> <<>>]
CfgRejected(message) == [ok |-> FALSE, data |-> NoConfigData, message |-> message]

LoadResponses ==
  {CfgResolved(ConfigData(TRUE, ServerModels.deepseek, TRUE, ServerModels)),
   CfgResolved(NoConfigData),
   CfgResolved(NullData),
   CfgRejected(NetworkMessage)}

SaveResponses ==
  {CfgResolved(NoConfigData), CfgRejected(StatusMessage("500"))}

\* POST /api/models/{name}: an unknown name is a 404.
SwitchResponses(modelName) ==
  IF modelName \in DOMAIN ServerModels
    THEN {CfgResolved(ConfigData(TRUE, ServerModels[modelName], FALSE, <<>>)),
          CfgResolved(NoConfigData),
          CfgResolved(NullData),
          CfgRejected(NetworkMessage)}
    ELSE {CfgRejected(StatusMessage("404"))}

LoadErrorPrefix == "load config failed: "
SaveErrorPrefix == "save config failed: "
SwitchErrorPrefix == "switch model failed: "

\* The message of the exception the handler caught.
CaughtMessage(response) ==
  IF response.ok THEN TypeErrorMessage ELSE response.message

\* What lastStep holds once operation op has returned value.
Returned(op, value) ==
  IF op = "load" THEN (IF value THEN "loadTrue" ELSE "loadFalse")
  ELSE IF op = "save" THEN (IF value THEN "saveTrue" ELSE "saveFalse")
  ELSE (IF value THEN "switchTrue" ELSE "switchFalse")

\* Every config-store operation starts the same way.
StartConfigCall(call) ==
  /\ requestCounter + cfgOpCounter < MaxCalls
  /\ loading' = TRUE
  /\ error' = <<>>
  /\ cfgOpCounter' = cfgOpCounter + 1
  /\ cfgPending' = cfgPending @@ ((cfgOpCounter + 1) :> call)
  /\ lastStep' = "config"

\* Every config-store operation ends the same way: its call is over,
\* loading is false, a failure leaves its text in error, and the promise
\* resolves with true or false.  stage is where the try block raised.
EndConfigCall(id, response, stage, prefix) ==
  /\ cfgPending' = [j \in DOMAIN cfgPending \ {id} |-> cfgPending[j]]
  /\ IF Escapes(stage)
       THEN /\ UNCHANGED <<loading, error>>
            /\ lastStep' = "configUncaught"
       ELSE /\ loading' = FALSE
            /\ error' = IF stage = "none" THEN error
                        ELSE <<prefix>> \o CaughtMessage(response)
            /\ lastStep' = Returned(cfgPending[id].op, stage = "none")

\* loadConfig, up to its await.
LoadConfig ==
  /\ StartConfigCall([op |-> "load"])
  /\ UNCHANGED <<config, models, chatVars>>

\* A load that found a config in the response and nothing else to fall back
\* on: the previous config stays when the response carries none.
ConfigAfterLoadKeep(response) ==
  IF response.ok /\ ~response.data.isNull /\ response.data.hasConfig
    THEN response.data.config
    ELSE config

\* config once loadConfig has returned.
ConfigAfterLoad(response) ==
  IF ~response.ok \/ response.data.isNull THEN config
  ELSE IF response.data.hasConfig THEN response.data.config
  ELSE DefaultConfig

\* loadConfig from the resumption to its end.
LoadConfigDone(id, response) ==
  /\ id \in DOMAIN cfgPending
  /\ cfgPending[id].op = "load"
  /\ EndConfigCall(id, response,
       ThrowStage(response.ok, response.data.isNull), LoadErrorPrefix)
  /\ config' = ConfigAfterLoad(response)
  /\ models' = IF ~response.ok \/ response.data.isNull THEN models
               ELSE IF response.data.hasModels THEN response.data.model_configs
               ELSE <<>>
  /\ UNCHANGED <<cfgOpCounter, chatVars>>

\* A request body that carries the caller's argument only.
PostedConfigNewOnly(updatedConfig, newConfig) == newConfig

\* The config field of the body saveConfig posts.
PostedConfig(updatedConfig, newConfig) == updatedConfig

\* saveConfig, up to its await: the merged config is applied at once.
SaveConfig(newConfig) ==
  /\ StartConfigCall([op |-> "save", updated |-> Merge(config, newConfig),
       posted |-> PostedConfig(Merge(config, newConfig), newConfig)])
  /\ config' = Merge(config, newConfig)
  /\ UNCHANGED <<models, chatVars>>

\* A failed save that puts back what the backend holds.
ConfigAfterSaveRollback(response) ==
  IF response.ok THEN config ELSE server.config

\* config once saveConfig has returned: neither the lines after the await
\* nor the catch block assign it.
ConfigAfterSave(response) == config

\* saveConfig from the resumption to its end: the response is not read.
SaveConfigDone(id, response) ==
  /\ id \in DOMAIN cfgPending
  /\ cfgPending[id].op = "save"
  /\ EndConfigCall(id, response, ThrowStage(response.ok, FALSE),
       SaveErrorPrefix)
  /\ config' = ConfigAfterSave(response)
  /\ UNCHANGED <<models, cfgOpCounter, chatVars>>

\* switchModel, up to its await.
SwitchModel(modelName) ==
  /\ StartConfigCall([op |-> "switch", name |-> modelName])
  /\ UNCHANGED <<config, models, chatVars>>

\* A switch that copies the model name only out of the response.
ConfigAfterSwitchModelOnly(response) ==
  IF response.ok /\ ~response.data.isNull /\ response.data.hasConfig
    THEN [config EXCEPT !.model = response.data.config.model]
    ELSE config

\* config once switchModel has returned.
ConfigAfterSwitch(response) ==
  IF response.ok /\ ~response.data.isNull /\ response.data.hasConfig
    THEN response.data.config
    ELSE config

\* switchModel from the resumption to its end.
SwitchModelDone(id, response) ==
  /\ id \in DOMAIN cfgPending
  /\ cfgPending[id].op = "switch"
  /\ response \in SwitchResponses(cfgPending[id].name)
  /\ EndConfigCall(id, response,
       ThrowStage(response.ok, response.data.isNull), SwitchErrorPrefix)
  /\ config' = ConfigAfterSwitch(response)
  /\ UNCHANGED <<models, cfgOpCounter, chatVars>>

\* ------------------------------------------------------------ specification
SendMessageCall ==
  /\ \E content \in Contents : SendMessage(content)
  /\ UNCHANGED view
ChatReplyStep ==
  /\ \E id \in DOMAIN pending, r \in ChatResponses : ChatReply(id, r)
  /\ UNCHANGED view
LoadConfigCall == LoadConfig /\ UNCHANGED <<server, view>>
LoadConfigDoneStep ==
  /\ \E id \in DOMAIN cfgPending, r \in LoadResponses : LoadConfigDone(id, r)
  /\ UNCHANGED <<server, view>>
SaveConfigCall ==
  /\ \E c \in SaveInputs : SaveConfig(c)
  /\ UNCHANGED <<server, view>>
SaveConfigDoneStep ==
  /\ \E id \in DOMAIN cfgPending, r \in SaveResponses : SaveConfigDone(id, r)
  /\ UNCHANGED <<server, view>>
SwitchModelCall ==
  /\ \E n \in ModelNames : SwitchModel(n)
  /\ UNCHANGED <<server, view>>
SwitchModelDoneStep ==
  /\ \E id \in DOMAIN cfgPending :
       \E r \in SwitchResponses("deepseek") \cup SwitchResponses("unknown")
                \cup SwitchResponses("silicon") :
         SwitchModelDone(id, r)
  /\ UNCHANGED <<server, view>>

Next ==
  \/ SendMessageCall
  \/ ChatReplyStep
  \/ ClearHistory
  \/ NewConversation
  \/ LoadConfigCall
  \/ LoadConfigDoneStep
  \/ SaveConfigCall
  \/ SaveConfigDoneStep
  \/ SwitchModelCall
  \/ SwitchModelDoneStep

Spec == Init /\ [][Next]_vars

\* The HTTP client settles every call: with a response, or by the 30 s
\* timeout.
LiveSpec == Spec /\ WF_vars(ChatReplyStep)

\* ------------------------------------- a backend that stores what it is sent
\* GET /api/config answers with what the backend holds, or the call fails
\* in transit.
StoredLoadResponses ==
  {CfgResolved(ConfigData(TRUE, server.config, TRUE, server.models)),
   CfgRejected(NetworkMessage)}

StoringLoadDone ==
  /\ \E id \in DOMAIN cfgPending, r \in StoredLoadResponses :
       LoadConfigDone(id, r)
  /\ UNCHANGED <<server, view>>

\* POST /api/config stores the posted config, or refuses with a 500 and
\* stores nothing.
StoringSaveDone ==
  \E id \in DOMAIN cfgPending, r \in SaveResponses :
    /\ SaveConfigDone(id, r)
    /\ server' = IF r.ok
                   THEN [server EXCEPT !.config = cfgPending[id].posted,
                                       !.clean = TRUE,
                                       !.saved = cfgPending[id].updated,
                                       !.at = cfgOpCounter]
                   ELSE server
    /\ UNCHANGED view

\* POST /api/models/{name} makes the named configuration the active one.
StoringSwitchDone ==
  \E id \in DOMAIN cfgPending :
    \E r \in {CfgResolved(ConfigData(TRUE, ServerModels.deepseek, FALSE, <<>>)),
              CfgResolved(ConfigData(TRUE, ServerModels.silicon, FALSE, <<>>)),
              CfgRejected(NetworkMessage),
              CfgRejected(StatusMessage("404"))} :
      /\ SwitchModelDone(id, r)
      /\ server' = IF r.ok
                     THEN [server EXCEPT !.config = r.data.config,
                                         !.clean = FALSE]
                     ELSE server
      /\ UNCHANGED view

RoundTripNext ==
  \/ LoadConfigCall
  \/ SaveConfigCall
  \/ SwitchModelCall
  \/ StoringLoadDone
  \/ StoringSaveDone
  \/ StoringSwitchDone

RoundTripSpec == Init /\ [][RoundTripNext]_vars

\* ----------------------------------------------------------------- ChatView
\* The user edits the text box (v-model on the textarea).
TypeMessage(text) ==
  /\ text # view.inputMessage
  /\ view' = [view EXCEPT !.inputMessage = text]
  /\ lastStep' = "typed"
  /\ UNCHANGED <<chatVars, cfgVars, server>>

\* ChatView.sendMessage up to its await; and, when the store turned the call
\* away, on to its end, because the store's promise is then already resolved
\* and the view resumes before any other event.  The view's chatHistory ref
\* is given the store's array again, which it already holds.
ChatViewSendMessage ==
  IF Trim(view.inputMessage) = <<>>
    THEN /\ lastStep' = "viewSendEmpty"
         /\ UNCHANGED <<chatVars, cfgVars, server, view>>
    ELSE /\ SendMessage(view.inputMessage)
         /\ view' = IF SendRejected(view.inputMessage)
                      THEN [view EXCEPT !.inputMessage = <<>>]
                      ELSE view

\* Enter without Shift in the text box.
HandleKeyDown ==
  /\ ChatViewSendMessage

\* The store's sendMessage settles and ChatView.sendMessage resumes after its
\* await: the text box is emptied, unless the store's promise rejected.
ChatViewResume(id, response) ==
  /\ ChatReply(id, response)
  /\ view' = IF lastStep' = "replyUncaught"
               THEN view
               ELSE [view EXCEPT !.inputMessage = <<>>]

TypeMessageStep == \E text \in Contents : TypeMessage(text)
ChatViewResumeStep ==
  \E id \in DOMAIN pending, r \in ChatResponses : ChatViewResume(id, r)

ChatViewNext ==
  \/ TypeMessageStep
  \/ ChatViewSendMessage
  \/ HandleKeyDown
  \/ ChatViewResumeStep
  \/ ClearHistory
  \/ NewConversation

ChatViewSpec == Init /\ [][ChatViewNext]_vars

\* --------------------------------------------------------------- ConfigView
\* The notices of alert() (the source's are in Chinese).
ModelSwitchedNotice == "model switched"
ConfigSavedNotice == "config saved"

\* What the form can hold when it is submitted: all five fields.
FormInputs ==
  {c \in SaveInputs \cup {DefaultConfig} : DOMAIN c = DOMAIN DefaultConfig}

\* The refs of ConfigView when one of its two handlers starts.
ViewStarted == [view EXCEPT !.loading = TRUE, !.error = <<>>, !.alert = "none"]

\* The refs of ConfigView when the handler resumes after its await: the
\* notice is raised if the store's promise resolved, whatever its value; the
\* catch block runs if it rejected; the finally block runs in both cases.
ViewResumed(notice, prefix, response) ==
  IF lastStep' = "configUncaught"
    THEN [view EXCEPT !.loading = FALSE, !.alert = "none",
                      !.error = <<prefix>> \o CaughtMessage(response)]
    ELSE [view EXCEPT !.loading = FALSE, !.alert = notice]

\* onMounted, up to its await.
ConfigViewMounted ==
  /\ LoadConfig
  /\ view' = [view EXCEPT !.alert = "none"]
  /\ UNCHANGED server

\* onMounted after its await: the form is filled from the store.
ConfigViewLoaded ==
  /\ \E id \in DOMAIN cfgPending, r \in LoadResponses : LoadConfigDone(id, r)
  /\ view' = [view EXCEPT !.alert = "none"]
  /\ UNCHANGED server

\* applyModelConfig, up to its await; the button is disabled while the view
\* is loading.
ApplyModelConfig(selectedModel) ==
  /\ ~view.loading
  /\ SwitchModel(selectedModel)
  /\ view' = ViewStarted
  /\ UNCHANGED server

ApplyModelConfigResume(id, response) ==
  /\ SwitchModelDone(id, response)
  /\ view' = ViewResumed(ModelSwitchedNotice, SwitchErrorPrefix, response)
  /\ UNCHANGED server

\* ConfigView.saveConfig, up to its await; the submit button is disabled
\* while the view is loading.
ConfigViewSaveConfig(form) ==
  /\ ~view.loading
  /\ SaveConfig(form)
  /\ view' = ViewStarted
  /\ UNCHANGED server

ConfigViewSaveConfigResume(id, response) ==
  /\ SaveConfigDone(id, response)
  /\ view' = ViewResumed(ConfigSavedNotice, SaveErrorPrefix, response)
  /\ UNCHANGED server

ApplyModelConfigCall == \E n \in ModelNames : ApplyModelConfig(n)
ApplyModelConfigResumeStep ==
  \E id \in DOMAIN cfgPending :
    \E r \in SwitchResponses("deepseek") \cup SwitchResponses("unknown")
             \cup SwitchResponses("silicon") :
      ApplyModelConfigResume(id, r)
ConfigViewSaveConfigCall == \E c \in FormInputs : ConfigViewSaveConfig(c)
ConfigViewSaveConfigResumeStep ==
  \E id \in DOMAIN cfgPending, r \in SaveResponses :
    ConfigViewSaveConfigResume(id, r)

ConfigViewNext ==
  \/ ConfigViewMounted
  \/ ConfigViewLoaded
  \/ ApplyModelConfigCall
  \/ ApplyModelConfigResumeStep
  \/ ConfigViewSaveConfigCall
  \/ ConfigViewSaveConfigResumeStep

ConfigViewSpec == Init /\ [][ConfigViewNext]_vars

\* ------------------------------------------------------------------ claims
\* The /api/chat calls in flight.
InFlight == DOMAIN pending

\* history as the messages array of a request.
MessagesOf(history) ==
  [i \in 1..Len(history) |->
     [role |-> history[i].role, content |-> history[i].content]]

\* Text made of white space only.
IsBlank(s) == \A i \in 1..Len(s) : s[i] \in WhiteSpace

\* t is s without its leading and trailing white space.
IsTrimOf(t, s) ==
  /\ t # <<>>
  /\ t[1] \notin WhiteSpace
  /\ t[Len(t)] \notin WhiteSpace
  /\ \E i \in 0..Len(s), j \in 0..Len(s) :
       /\ i + Len(t) + j = Len(s)
       /\ IsBlank(SubSeq(s, 1, i))
       /\ SubSeq(s, i + 1, i + Len(t)) = t
       /\ IsBlank(SubSeq(s, i + Len(t) + 1, Len(s)))

\* What lastStep holds after a sendMessage call.
SendSteps == {"sendAccepted", "sendRejectedEmpty", "sendRejectedBusy"}

\* C1: at most one /api/chat request is outstanding at any time, and a
\* sendMessage call made while isLoading is true changes nothing: no message
\* appended, messageCounter not advanced, no request issued.
C1_OneOutstandingBusyRejected ==
  /\ [](Cardinality(InFlight) <= 1)
  /\ [][(isLoading /\ lastStep' \in SendSteps) => UNCHANGED chatVars]_vars

\* A non-empty send was turned away while a request was in flight.
C1_Witness ==
  /\ lastStep = "sendRejectedBusy"
  /\ isLoading
  /\ Cardinality(InFlight) = 1

\* The request of call id was built from a history that has since been
\* replaced (clearHistory or newConversation ran while it was in flight).
Stale(id) == pending[id].messages # MessagesOf(chatHistory)

\* C2: when clearHistory or newConversation ran while a send was in flight,
\* the reply (or error) of that send is discarded: it is not appended to
\* chatHistory.
C2_LateReplyDiscarded ==
  [][\A id \in InFlight : \A r \in ChatResponses :
       (Stale(id) /\ ChatReply(id, r)) => chatHistory' = chatHistory]_vars

\* C3: when the request of an accepted send fails (timeout, transport error,
\* non-2xx status), no assistant message is appended: chatHistory stays as it
\* was right after the user message was appended.
C3_FailureAppendsNothing ==
  [][\A id \in InFlight : \A r \in ChatResponses :
       (~r.ok /\ ChatReply(id, r)) => chatHistory' = chatHistory]_vars

\* C4: the request issued by an accepted send carries the api_url, api_key,
\* model, temperature and max_tokens config held when the send was accepted,
\* and no later step (switchModel, saveConfig, loadConfig, or their
\* completion) changes a request that is in flight.
C4_RequestCarriesConfigAtSend ==
  [][/\ \A id \in InFlight' \ InFlight :
          /\ pending'[id].api_url = config.api_url
          /\ pending'[id].api_key = config.api_key
          /\ pending'[id].model = config.model
          /\ pending'[id].temperature = config.temperature
          /\ pending'[id].max_tokens = config.max_tokens
     /\ \A id \in InFlight' \cap InFlight : pending'[id] = pending[id]]_vars

\* The active configuration was switched while a request was in flight: the
\* request still names the model it was issued with.
C4_Witness ==
  \E id \in InFlight :
    /\ pending[id].model # config.model
    /\ config = ServerModels.deepseek
    /\ cfgPending = <<>>

\* C5: every accepted send sets isLoading back to false once its call
\* settles, whatever the outcome, and isLoading is already false when the
\* sendMessage promise settles.
C5_LoadingReleased ==
  /\ isLoading ~> ~isLoading
  /\ [](lastStep \in {"replyOk", "replyFailed"} => ~isLoading)

\* A call has just failed and isLoading is false.
C5_Witness == lastStep = "replyFailed" /\ ~isLoading /\ InFlight = {}

\* C6: after a failed call the next non-empty send is accepted (it appends
\* its user message and issues exactly one request), the failed call is not
\* issued again, and requests are issued by accepted sends only, one each.
C6_NextSendAfterFailure ==
  /\ [](lastStep = "replyFailed" => InFlight = {})
  /\ [][/\ lastStep = "replyFailed"
             => \A content \in Contents :
                  (~IsBlank(content) /\ SendMessage(content))
                  => /\ Len(chatHistory') = Len(chatHistory) + 1
                     /\ chatHistory'[Len(chatHistory')].role = "user"
                     /\ requestCounter' = requestCounter + 1
                     /\ InFlight' = {requestCounter'}
        /\ requestCounter' # requestCounter
             => /\ lastStep' = "sendAccepted"
                /\ requestCounter' = requestCounter + 1
                /\ InFlight' = InFlight \cup {requestCounter'}]_vars

\* A second send was accepted right after the first one failed.
C6_Witness ==
  /\ lastStep = "sendAccepted"
  /\ requestCounter = 2
  /\ Len(chatHistory) = 3
  /\ chatHistory[2].content.v # <<>>
  /\ chatHistory[2].content.v[1] = ErrorPrefix

\* The reply text a body of a recognized success shape carries: the body
\* field of an iflow envelope, else choices[0].message.content, else the
\* top-level content.
ExpectedReply(b) ==
  IF b.status # Undefined THEN b.body
  ELSE IF b.hasChoices /\ b.choices # <<>> THEN b.choices[1].content
  ELSE b.content

\* C7: for a 2xx response in each of the three recognized success shapes,
\* the send appends exactly one assistant message whose content is the reply
\* text the body carries.
C7_SuccessShapesExtracted ==
  [][\A id \in InFlight : \A b \in {IflowBody, OpenAIBody, SimplifiedBody} :
       ChatReply(id, Resolved(b))
       => chatHistory' = Append(chatHistory,
            Message(messageCounter, "assistant", ExpectedReply(b)))]_vars

\* C8: a 2xx body of no recognized shape is a failure: no assistant message
\* (in particular none with empty content) is appended.
C8_UnrecognizedIsFailure ==
  [][\A id \in InFlight :
       ChatReply(id, Resolved(FooBarBody))
       => /\ lastStep' = "replyFailed"
          /\ \A i \in 1..Len(chatHistory') :
               chatHistory'[i].role = "assistant"
               => chatHistory'[i].content # Str(<<>>)]_vars

\* C9: a 2xx body whose choices is present but empty, or whose choices[0]
\* lacks message or has a null content, is a failure: neither a success with
\* empty content nor a fall-through to the top-level content.
C9_MalformedChoicesIsFailure ==
  [][\A id \in InFlight :
       \A b \in {EmptyChoicesBody, EmptyChoicesContentBody,
                 NoMessageBody, NullContentBody} :
         ChatReply(id, Resolved(b)) => lastStep' = "replyFailed"]_vars

\* C10: a send whose content is empty after trimming changes nothing; any
\* other content sent while idle appends, in the same step and before the
\* request is issued, a user message holding the trimmed content.
C10_EmptyRejectedElseAppended ==
  [][lastStep' \in SendSteps =>
     \A content \in Contents :
       SendMessage(content)
       => IF IsBlank(content)
            THEN UNCHANGED chatVars
            ELSE ~isLoading
                 => /\ Len(chatHistory') = Len(chatHistory) + 1
                    /\ SubSeq(chatHistory', 1, Len(chatHistory)) = chatHistory
                    /\ LET m == chatHistory'[Len(chatHistory')]
                       IN /\ m.role = "user"
                          /\ m.content.t = "string"
                          /\ IsTrimOf(m.content.v, content)
                          /\ isLoading'
                          /\ \E id \in InFlight' \ InFlight :
                               pending'[id].messages = MessagesOf(chatHistory')
      ]_vars

\* A send was accepted whose text, trimmed, is "h".
C10_Witness ==
  /\ lastStep = "sendAccepted"
  /\ chatHistory # <<>>
  /\ chatHistory[Len(chatHistory)] =
       Message(messageCounter - 1, "user", Str(<<"h">>))

\* C11: the messages array of every request is the whole chatHistory at the
\* moment of sending, one {role, content} pair per message in insertion
\* order, nothing dropped or truncated, and its last element is the user
\* message that this sendMessage has just appended.
C11_RequestCarriesWholeHistory ==
  [][lastStep' = "sendAccepted" =>
     \A id \in InFlight' \ InFlight :
       LET sent == pending'[id].messages
       IN /\ Len(sent) = Len(chatHistory')
          /\ Len(sent) = Len(chatHistory) + 1
          /\ \A i \in 1..Len(sent) :
               /\ DOMAIN sent[i] = {"role", "content"}
               /\ sent[i].role = chatHistory'[i].role
               /\ sent[i].content = chatHistory'[i].content
          /\ \A i \in 1..Len(chatHistory) :
               /\ sent[i].role = chatHistory[i].role
               /\ sent[i].content = chatHistory[i].content
          /\ sent[Len(sent)].role = "user"
          /\ chatHistory'[Len(sent)].id = <<"msg_", messageCounter>>
    ]_vars

\* A second request is in flight and carries the first exchange and the new
\* user message.
C11_Witness ==
  /\ lastStep = "sendAccepted"
  /\ Len(chatHistory) = 3
  /\ \E id \in InFlight :
       /\ Len(pending[id].messages) = 3
       /\ pending[id].messages[2].role = "assistant"

\* What lastStep holds after a handler whose promise resolved.
ResolvedSteps ==
  SendSteps \cup {"replyOk", "replyFailed", "loadTrue", "loadFalse",
                  "saveTrue", "saveFalse", "switchTrue", "switchFalse"}

\* C12: no failure escapes as an uncaught fault: whatever the response or
\* transport outcome (any status, any body shape, timeout, network error),
\* the promises of sendMessage, loadConfig, saveConfig and switchModel
\* resolve and never reject.
C12_NoFailureEscapes ==
  /\ lastStep \notin {"replyUncaught", "configUncaught"}
  /\ lastStep \in ResolvedSteps \cup {"init", "clear", "config"}

\* loadConfig met a null body: the TypeError was caught and the call
\* returned false.
C12_Witness ==
  /\ lastStep = "loadFalse"
  /\ error = <<LoadErrorPrefix>> \o TypeErrorMessage
  /\ ~loading

\* C13: every failed or rejected call yields a machine-checkable kind,
\* distinct per cause (AuthError, ProviderUnavailable, Timeout, NetworkError,
\* Busy); in particular a send turned away because one is in flight yields
\* Busy: its caller gets a result, or the store a trace, that tells it from
\* a call that was not turned away.
C13_FailureKindPerCause ==
  [][lastStep' = "sendRejectedBusy" =>
       \A content \in Contents :
         SendMessage(content)
         => (SendResult(content) # Undefined \/ chatVars' # chatVars)]_vars

\* C14: a response that is an iflow envelope (status, msg, body) whose status
\* signals failure and whose msg says the token has expired makes the call a
\* failure of kind AuthExpired with detail msg: not a success, and the text
\* of msg is what the conversation is left with.
C14_IflowExpiredIsAuthExpired ==
  [][\A id \in InFlight :
       ChatReply(id, Resolved(IflowExpiredBody))
       => /\ lastStep' = "replyFailed"
          /\ LET m == chatHistory'[Len(chatHistory')]
             IN m.content.t = "string" /\ m.content.v # <<>>]_vars

\* The config-store calls that the step ends.
Ended == DOMAIN cfgPending \ DOMAIN cfgPending'

\* C15: switchModel(name) for a name the server does not know fails with
\* config unchanged: it returns false and sets error.  For a known name the
\* active config goes from the old record to the new record in one step: the
\* config after the step is the old one or the whole record of that name,
\* never a mixture of the two.
C15_SwitchModelAtomic ==
  [][lastStep' \in {"switchTrue", "switchFalse"} =>
     \A id \in Ended :
       LET name == cfgPending[id].name
       IN IF name \notin DOMAIN ServerModels
            THEN /\ config' = config
                 /\ lastStep' = "switchFalse"
                 /\ error' # <<>>
            ELSE /\ config' \in {config, ServerModels[name]}
                 /\ \A r \in SwitchResponses(name) :
                      (SwitchModelDone(id, r) /\ r.ok /\ ~r.data.isNull
                         /\ r.data.hasConfig)
                      => /\ config' = ServerModels[name]
                         /\ lastStep' = "switchTrue"
                 /\ lastStep' = "switchFalse" => (config' = config /\ error' # <<>>)
    ]_vars

\* A switch to a known name has replaced a config that differed from the new
\* record in every field but temperature and max_tokens.
C15_Witness ==
  /\ lastStep = "switchTrue"
  /\ config = ServerModels.silicon
  /\ error = <<>>
  /\ ~loading

\* A temperature (in tenths) within [0.0, 2.0].
TemperatureInRange(t) == t >= 0 /\ t <= 20

\* C16: saveConfig with an empty api_url, a temperature outside [0.0, 2.0] or
\* a max_tokens below 1 fails and leaves the store's config unchanged; no
\* out-of-range temperature or max_tokens is ever part of the active config
\* or of a chat request.
C16_InvalidConfigRejected ==
  /\ [][lastStep' = "config" =>
         \A c \in SaveInputs :
           LET merged == Merge(config, c)
           IN (SaveConfig(c)
                 /\ (merged.api_url = ""
                       \/ ~TemperatureInRange(merged.temperature)
                       \/ merged.max_tokens < 1))
              => config' = config]_vars
  /\ [](/\ TemperatureInRange(config.temperature)
        /\ config.max_tokens >= 1
        /\ \A id \in InFlight :
             /\ TemperatureInRange(pending[id].temperature)
             /\ pending[id].max_tokens >= 1)

\* C17: in every reachable state of the config store config is a present
\* record: the five defaults initially; a loadConfig whose response carries
\* no config sets exactly these defaults; a switchModel whose response
\* carries no config keeps the previous config; and a failed operation
\* leaves config as it was, never absent.
C17_ConfigAlwaysPresent ==
  /\ [](DOMAIN config = DOMAIN DefaultConfig)
  /\ [](lastStep = "init" =>
          config = [api_url |-> "", api_key |-> "", model |-> "",
                    temperature |-> 7, max_tokens |-> 1000])
  /\ [][lastStep' \in {"loadTrue", "switchTrue"} =>
         \A id \in Ended :
           /\ \A r \in LoadResponses :
                (LoadConfigDone(id, r) /\ r.ok /\ ~r.data.hasConfig)
                => config' = [api_url |-> "", api_key |-> "", model |-> "",
                              temperature |-> 7, max_tokens |-> 1000]
           /\ \A r \in SwitchResponses("deepseek") :
                (SwitchModelDone(id, r) /\ r.ok /\ ~r.data.hasConfig)
                => config' = config]_vars
  /\ [][lastStep' \in {"loadFalse", "saveFalse", "switchFalse"} =>
         config' = config]_vars

\* The second config-store call was a loadConfig answered without config and
\* without model_configs: it returned true and the defaults are in place.
C17_Witness ==
  /\ lastStep = "loadTrue"
  /\ config = DefaultConfig
  /\ models = <<>>
  /\ cfgOpCounter = 2
  /\ cfgPending = <<>>

\* C18: clearHistory and newConversation each leave chatHistory empty as
\* soon as they return, in every state, a send in flight included, and they
\* change neither isLoading nor messageCounter nor the outstanding request.
C18_ClearOnlyEmptiesHistory ==
  [][(ClearHistory \/ NewConversation \/ lastStep' = "clear") =>
       /\ chatHistory' = <<>>
       /\ isLoading' = isLoading
       /\ messageCounter' = messageCounter
       /\ pending' = pending
       /\ requestCounter' = requestCounter]_vars

\* The history was cleared while a request was in flight.
C18_Witness ==
  /\ lastStep = "clear"
  /\ chatHistory = <<>>
  /\ isLoading
  /\ messageCounter > 0
  /\ InFlight # {}

\* C19: round trip with a server that stores what it is sent: a successful
\* saveConfig(c) followed by a successful loadConfig, with no other write to
\* the server in between, leaves the store's config equal to the config that
\* was saved, and the set of named model configurations unchanged (on the
\* server, and in a store that had loaded it before).
C19_SaveLoadRoundTrip ==
  [][(lastStep' = "loadTrue" /\ server.clean) =>
       \A id \in Ended :
         id > server.at
         => /\ config' = server.saved
            /\ server'.models = server.models
            /\ models' = server.models
            /\ models # <<>> => models' = models]_vars

\* A whole form was saved and the load that followed has returned true: the
\* store holds the saved config and the server's named configurations.
C19_Witness ==
  /\ lastStep = "loadTrue"
  /\ server.clean
  /\ server.at = 1
  /\ config = server.saved
  /\ config.model = "gpt-3.5-turbo"
  /\ models = ServerModels

\* C20: in every reachable state chatHistory alternates user, assistant,
\* user, ... starting with a user message, and whenever isLoading is false
\* the history has even length: one reply per accepted user turn.
C20_HistoryAlternates ==
  /\ \A i \in 1..Len(chatHistory) :
       chatHistory[i].role = IF i % 2 = 1 THEN "user" ELSE "assistant"
  /\ ~isLoading => Len(chatHistory) % 2 = 0

\* C21: shape detection is ordered: when a 2xx body has both a non-empty
\* choices array and a top-level content field, the appended assistant
\* content is choices[0].message.content and never the top-level content;
\* the top-level content is appended only when choices is absent or empty.
C21_ChoicesBeforeContent ==
  [][lastStep' = "replyOk" =>
     \A id \in InFlight : \A b \in Bodies :
       ChatReply(id, Resolved(b))
       => LET appended == chatHistory'[Len(chatHistory')].content
          IN /\ (b.hasChoices /\ b.choices # <<>> /\ b.content # Undefined)
                => /\ appended = b.choices[1].content
                   /\ appended # b.content
             /\ (appended = b.content /\ b.content # Undefined)
                => (~b.hasChoices \/ b.choices = <<>>)]_vars

\* The reply to a body with both shapes was appended: it holds the text of
\* choices[0].message.content.
C21_Witness ==
  /\ lastStep = "replyOk"
  /\ chatHistory # <<>>
  /\ chatHistory[Len(chatHistory)].role = "assistant"
  /\ chatHistory[Len(chatHistory)].content = BothBody.choices[1].content

\* The number in the id of message m.
IdNumber(m) == m.id[2]

\* The messages of history, as a set.
MessagesIn(history) == {history[i] : i \in 1..Len(history)}

\* C22: message ids are unique over the whole session: messageCounter only
\* increases and no clear resets it; the messages in chatHistory have
\* distinct ids, strictly increasing in history order; and a message that
\* enters the history gets a number no earlier message, cleared or not, had.
C22_MessageIdsUnique ==
  /\ [][messageCounter' >= messageCounter]_vars
  /\ [](\A i \in 1..Len(chatHistory) :
          /\ chatHistory[i].id[1] = "msg_"
          /\ IdNumber(chatHistory[i]) < messageCounter
          /\ \A j \in 1..Len(chatHistory) :
               i < j => IdNumber(chatHistory[i]) < IdNumber(chatHistory[j]))
  /\ [][\A m \in MessagesIn(chatHistory') \ MessagesIn(chatHistory) :
          IdNumber(m) >= messageCounter]_vars

\* After one exchange and a clear, the first message of the new conversation
\* carries the third number.
C22_Witness ==
  /\ lastStep = "sendAccepted"
  /\ Len(chatHistory) = 1
  /\ chatHistory[1].id = <<"msg_", 2>>
  /\ messageCounter = 3

\* C23: saveConfig applies the merged config to the store before the POST
\* and does not roll it back: the call's first step leaves config equal to
\* the old config overridden by newConfig; when the POST fails, saveConfig
\* returns false, error is set and config stays as it is, so that a chat
\* request sent afterwards carries values the server never stored.
C23_SaveNotRolledBack ==
  /\ [][lastStep' = "config" =>
         \A c \in SaveInputs :
           SaveConfig(c)
           => /\ DOMAIN config' = DOMAIN config
              /\ \A k \in DOMAIN c : config'[k] = c[k]
              /\ \A k \in DOMAIN config \ DOMAIN c : config'[k] = config[k]
              /\ \E id \in DOMAIN cfgPending' \ DOMAIN cfgPending :
                   cfgPending'[id].op = "save"]_vars
  /\ [][lastStep' = "saveFalse" =>
         /\ config' = config
         /\ error' # <<>>
         /\ error'[1] = SaveErrorPrefix
         /\ ~loading']_vars
  /\ [][lastStep' = "sendAccepted" =>
         \A id \in InFlight' \ InFlight :
           pending'[id].temperature = config.temperature]_vars

\* A save of temperature 3.0 was refused by the server, and the chat request
\* sent afterwards carries that temperature.
C23_Witness ==
  /\ lastStep = "sendAccepted"
  /\ error = <<SaveErrorPrefix>> \o StatusMessage("500")
  /\ config.temperature = 30
  /\ \E id \in InFlight : pending[id].temperature = 30

\* C24: config responses take effect in request order: once a switchModel
\* or saveConfig issued after a loadConfig has succeeded, the late response to
\* that loadConfig (here the first call the store made) does not overwrite
\* config with the older value.
C24_ResponsesInRequestOrder ==
  [][(/\ lastStep \in {"switchTrue", "saveTrue"}
      /\ lastStep' = "loadTrue"
      /\ 1 \in Ended)
     => config' = config]_vars

\* C25: in the config store loading is true whenever at least one of
\* loadConfig, saveConfig or switchModel is in flight, also when two of them
\* overlap, and it is false only when none is in flight.
C25_LoadingWhileInFlight == loading <=> (cfgPending # <<>>)

\* The text of the user message that the request of call id was sent for.
SentText(id) == pending[id].messages[Len(pending[id].messages)].content.v

\* C26: in ChatView a submitted message is never lost: when the view's
\* sendMessage is called with a non-empty text box (holding another text
\* than the one in flight), the trimmed text is appended to chatHistory as a
\* user message or the text box still holds it once the call is over, also
\* while a previous send is in flight; and text typed during the wait is
\* still in the box when the earlier send completes.
C26_SubmittedMessageNotLost ==
  /\ [][(/\ lastStep' \in SendSteps
         /\ ~IsBlank(view.inputMessage)
         /\ \A id \in InFlight : ~IsTrimOf(SentText(id), view.inputMessage)) =>
         \/ /\ Len(chatHistory') = Len(chatHistory) + 1
            /\ chatHistory'[Len(chatHistory')].role = "user"
            /\ IsTrimOf(chatHistory'[Len(chatHistory')].content.v,
                        view.inputMessage)
         \/ view'.inputMessage = view.inputMessage]_vars
  /\ [][lastStep' \in {"replyOk", "replyFailed"} =>
         \A id \in InFlight \ InFlight' :
           (~IsBlank(view.inputMessage)
              /\ ~IsTrimOf(SentText(id), view.inputMessage))
           => view'.inputMessage = view.inputMessage]_vars

\* C27: ConfigView raises its success notices only when the store's
\* switchModel or saveConfig returned true; when the store operation fails,
\* no success notice is raised and the view's error is set.
C27_NoticeOnlyOnSuccess ==
  /\ [][view'.alert # "none" => lastStep' \in {"switchTrue", "saveTrue"}]_vars
  /\ [][lastStep' \in {"switchFalse", "saveFalse"} =>
         /\ view'.alert = "none"
         /\ view'.error # <<>>]_vars

====
